---- MODULE Spec2Model ----
(***************************************************************************)
(* doc-search: a Hono worker over a D1 index (files, file_tags), an R2      *)
(* bucket and the edge cache.  The model follows the current version of    *)
(* the worker (src/src/index.ts lines 119-372), auth.ts lines 1-40 and the  *)
(* schema (src/src/index.ts lines 492-510).                                 *)
(*                                                                         *)
(* Strings are sequences of one-character strings, so that trim,           *)
(* toLowerCase, split and the LIKE operator are computed, not assumed.     *)
(***************************************************************************)
EXTENDS Integers, Sequences, FiniteSets, TLC

VARIABLES
  ADMIN_PASSWORD,  \* env binding, a string
  TEAM_PASSWORD,   \* env binding, a string
  files,           \* table files: id -> [filename, r2_key, size, created_at]
  file_tags,       \* table file_tags: set of <<file_id, tag>> (primary key)
  bucket,          \* R2: the set of keys that hold an object
  cache,           \* caches.default: the set of request URLs with a stored response
  puts,            \* cache.put calls handed to waitUntil and not yet done
  nextId,          \* the next id crypto.randomUUID() yields (ids are never reused)
  ctx,             \* per invocation: its request, where its handler is, its
                   \* locals and, once it has answered, its response
  deleted,         \* history: the ids whose DELETE removed the file row
  written,         \* history: id -> the tag set of the last index write to its tags
  jar              \* the browser's cookie store: the text kept for doc_auth

env == <<ADMIN_PASSWORD, TEAM_PASSWORD>>
index == <<files, file_tags>>
hist == <<deleted, written>>
vars == <<env, index, bucket, cache, puts, nextId, ctx, hist, jar>>

(***************************************************************************)
(* Bounds of the model.                                                    *)
(***************************************************************************)
MaxFiles == 1      \* Spec: ids crypto.randomUUID() hands out in one behaviour
MaxFilesTags == 2  \* SpecTags: the same
MaxFilesConc == 1  \* SpecConc: the same
MaxTags == 2       \* length of the tags array of a PATCH body

MaxFilesEdge == 1  \* SpecEdge: the same
MaxFilesCap == 2   \* SpecCap: the same, on top of the files stored at the start
MaxFilesLink == 1  \* SpecLink: the same
MaxFilesFail == 1  \* SpecFail: the same

(***************************************************************************)
(* AuthLevel (auth.ts 7-11).                                               *)
(***************************************************************************)
GUEST == 0
TEAM == 1
ADMIN == 2

\* getCookie / c.req.query give undefined when the cookie / parameter is absent.
\* Cookie values, tokens and the two secrets are atomic strings.
Undefined == "undefined"

\* undefined / NULL where a string of characters is expected
NoStr == <<"undefined">>

(***************************************************************************)
(* Strings.                                                                *)
(***************************************************************************)
IsSpace(ch) == ch = " "

\* String.prototype.toLowerCase, on the model's alphabet
LowerChar(ch) == CASE ch = "A" -> "a" [] ch = "B" -> "b" [] OTHER -> ch

toLowerCase(s) == [i \in 1..Len(s) |-> LowerChar(s[i])]

RECURSIVE TrimStart(_)
TrimStart(s) == IF s # <<>> /\ IsSpace(Head(s)) THEN TrimStart(Tail(s)) ELSE s

RECURSIVE TrimEnd(_)
TrimEnd(s) ==
  IF s # <<>> /\ IsSpace(s[Len(s)]) THEN TrimEnd(SubSeq(s, 1, Len(s) - 1)) ELSE s

\* String.prototype.trim
trim(s) == TrimEnd(TrimStart(s))

\* Array.prototype.filter(t => t.length > 0)
RECURSIVE FilterNonEmpty(_)
FilterNonEmpty(ts) ==
  IF ts = <<>> THEN <<>>
  ELSE IF Len(Head(ts)) > 0 THEN <<Head(ts)>> \o FilterNonEmpty(Tail(ts))
       ELSE FilterNonEmpty(Tail(ts))

\* String.prototype.split(sep) for a one-character separator class: the pieces
\* between maximal runs (greedy = TRUE, /\s+/) or single occurrences (',').
RECURSIVE SplitAcc(_, _, _, _)
SplitAcc(s, seps, greedy, cur) ==
  IF s = <<>> THEN <<cur>>
  ELSE IF Head(s) \in seps
       THEN LET rest == IF greedy THEN TrimStart(Tail(s)) ELSE Tail(s)
            IN  <<cur>> \o SplitAcc(rest, seps, greedy, <<>>)
       ELSE SplitAcc(Tail(s), seps, greedy, cur \o <<Head(s)>>)

\* tagsStr.split(/\s+/)
SplitSpaces(s) == SplitAcc(s, {" "}, TRUE, <<>>)

\* tags_str.split(',')
SplitComma(s) == SplitAcc(s, {","}, FALSE, <<>>)

\* The characters of the strings the model holds whole (secrets, cookies,
\* tokens), and the string of a run of characters.
Texts == {"adm", "team", "other", "p&q"}

Chars(str) ==
  CASE str = "adm" -> <<"a", "d", "m">>
    [] str = "team" -> <<"t", "e", "a", "m">>
    [] str = "p&q" -> <<"p", "&", "q">>
    [] OTHER -> <<"o", "t", "h", "e", "r">>

Str(cs) ==
  IF \E str \in Texts : Chars(str) = cs
  THEN CHOOSE str \in Texts : Chars(str) = cs
  ELSE "other"

\* encodeURIComponent, on the model's alphabet
RECURSIVE encodeURIComponent(_)
encodeURIComponent(s) ==
  IF s = <<>> THEN <<>>
  ELSE (CASE Head(s) = "&" -> <<"%", "2", "6">>
          [] Head(s) = "+" -> <<"%", "2", "B">>
          [] Head(s) = " " -> <<"%", "2", "0">>
          [] Head(s) = "%" -> <<"%", "2", "5">>
          [] Head(s) = "#" -> <<"%", "2", "3">>
          [] Head(s) = "=" -> <<"%", "3", "D">>
          [] OTHER -> <<Head(s)>>) \o encodeURIComponent(Tail(s))

\* decodeURIComponent, on the model's alphabet
RECURSIVE decodeURIComponent(_)
decodeURIComponent(s) ==
  IF s = <<>> THEN <<>>
  ELSE IF Head(s) = "%" /\ Len(s) >= 3
       THEN LET hex == SubSeq(s, 2, 3)
                ch == CASE hex = <<"2", "6">> -> <<"&">>
                        [] hex = <<"2", "B">> -> <<"+">>
                        [] hex = <<"2", "0">> -> <<" ">>
                        [] hex = <<"2", "5">> -> <<"%">>
                        [] hex = <<"2", "3">> -> <<"#">>
                        [] hex = <<"3", "D">> -> <<"=">>
                        [] OTHER -> <<>>
            IN  IF ch = <<>> THEN <<"%">> \o decodeURIComponent(Tail(s))
                ELSE ch \o decodeURIComponent(SubSeq(s, 4, Len(s)))
       ELSE <<Head(s)>> \o decodeURIComponent(Tail(s))

\* the part of s before the first character of stops
RECURSIVE Before(_, _)
Before(s, stops) ==
  IF s = <<>> \/ Head(s) \in stops THEN <<>>
  ELSE <<Head(s)>> \o Before(Tail(s), stops)

IsPrefix(pre, s) == Len(pre) <= Len(s) /\ SubSeq(s, 1, Len(pre)) = pre

\* c.req.query(key) on the query string of a request URL (the client sends
\* no fragment): the value of the first key=value piece between '&'s, '+'
\* read as a space and %XX decoded; undefined without such a piece
QueryParam(query, key) ==
  LET pieces == SplitAcc(Before(query, {"#"}), {"&"}, FALSE, <<>>)
      hits == {i \in DOMAIN pieces : IsPrefix(key \o <<"=">>, pieces[i])}
  IN  IF hits = {} THEN NoStr
      ELSE LET piece == pieces[CHOOSE i \in hits : \A j \in hits : i <= j]
               raw == SubSeq(piece, Len(key) + 2, Len(piece))
           IN  decodeURIComponent([i \in DOMAIN raw |->
                                     IF raw[i] = "+" THEN " " ELSE raw[i]])

\* Array.prototype.join(',') / GROUP_CONCAT's default separator
RECURSIVE JoinComma(_)
JoinComma(ts) ==
  IF ts = <<>> THEN <<>>
  ELSE IF Len(ts) = 1 THEN Head(ts)
       ELSE Head(ts) \o <<",">> \o JoinComma(Tail(ts))

\* SQLite's LIKE: '%' matches any run of characters, '_' exactly one character,
\* any other character matches itself ignoring ASCII case; no ESCAPE is given.
RECURSIVE Like(_, _)
Like(pat, s) ==
  IF pat = <<>> THEN s = <<>>
  ELSE IF Head(pat) = "%"
       THEN \E k \in 0..Len(s) : Like(Tail(pat), SubSeq(s, k + 1, Len(s)))
       ELSE /\ s # <<>>
            /\ \/ Head(pat) = "_"
               \/ LowerChar(Head(pat)) = LowerChar(Head(s))
            /\ Like(Tail(pat), Tail(s))

\* const term = `%${query}%`
Term(query) == <<"%">> \o query \o <<"%">>

Range(f) == {f[i] : i \in DOMAIN f}

\* the arrays that list each element of S once
Perms(S) == {s \in [1..Cardinality(S) -> S] : Range(s) = S}

(***************************************************************************)
(* The D1 index.  A database value is [files, file_tags]; a prepared       *)
(* statement is a record; DB.batch runs its statements in order as one     *)
(* transaction and rolls all of them back when one fails.  Foreign keys    *)
(* are enforced, as the schema declares them (index.ts 503-508).           *)
(***************************************************************************)
DBNow == [files |-> files, file_tags |-> file_tags]

InsertFile(id, filename, r2_key, size, created_at) ==
  [kind |-> "INSERT_FILE", id |-> id,
   row |-> [filename |-> filename, r2_key |-> r2_key, size |-> size,
            created_at |-> created_at],
   tag |-> <<>>]

NoRow == [filename |-> <<>>, r2_key |-> 0, size |-> 0, created_at |-> 0]

InsertTagOrIgnore(id, tag) ==
  [kind |-> "INSERT_TAG", id |-> id, row |-> NoRow, tag |-> tag]

DeleteTags(id) == [kind |-> "DELETE_TAGS", id |-> id, row |-> NoRow, tag |-> <<>>]

DeleteFile(id) == [kind |-> "DELETE_FILE", id |-> id, row |-> NoRow, tag |-> <<>>]

\* mutant: foreign keys not enforced (no check on INSERT, no cascade)
ExecNoForeignKey(db, st) ==
  CASE st.kind = "INSERT_FILE" ->
         IF st.id \in DOMAIN db.files
         THEN [ok |-> FALSE, db |-> db]
         ELSE [ok |-> TRUE,
               db |-> [db EXCEPT !.files =
                         [i \in DOMAIN db.files \cup {st.id} |->
                            IF i = st.id THEN st.row ELSE db.files[i]]]]
    [] st.kind = "INSERT_TAG" ->
         [ok |-> TRUE,
          db |-> [db EXCEPT !.file_tags = @ \cup {<<st.id, st.tag>>}]]
    [] st.kind = "DELETE_TAGS" ->
         [ok |-> TRUE,
          db |-> [db EXCEPT !.file_tags = {r \in @ : r[1] # st.id}]]
    [] st.kind = "DELETE_FILE" ->
         [ok |-> TRUE,
          db |-> [db EXCEPT !.files = [i \in DOMAIN db.files \ {st.id} |-> db.files[i]]]]

\* one statement: [ok, db]
Exec(db, st) ==
  CASE st.kind = "INSERT_FILE" ->
         IF st.id \in DOMAIN db.files
         THEN [ok |-> FALSE, db |-> db]                 \* PRIMARY KEY (id)
         ELSE [ok |-> TRUE,
               db |-> [db EXCEPT !.files =
                         [i \in DOMAIN db.files \cup {st.id} |->
                            IF i = st.id THEN st.row ELSE db.files[i]]]]
    [] st.kind = "INSERT_TAG" ->
         IF st.id \notin DOMAIN db.files
         THEN [ok |-> FALSE, db |-> db]                 \* FOREIGN KEY (file_id)
         ELSE [ok |-> TRUE,                             \* OR IGNORE: PRIMARY KEY (file_id, tag)
               db |-> [db EXCEPT !.file_tags = @ \cup {<<st.id, st.tag>>}]]
    [] st.kind = "DELETE_TAGS" ->
         [ok |-> TRUE,
          db |-> [db EXCEPT !.file_tags = {r \in @ : r[1] # st.id}]]
    [] st.kind = "DELETE_FILE" ->
         [ok |-> TRUE,                                  \* ON DELETE CASCADE
          db |-> [files |-> [i \in DOMAIN db.files \ {st.id} |-> db.files[i]],
                  file_tags |-> {r \in db.file_tags : r[1] # st.id}]]

RECURSIVE RunAll(_, _)
RunAll(db, stmts) ==
  IF stmts = <<>> THEN [ok |-> TRUE, db |-> db]
  ELSE LET r == Exec(db, Head(stmts))
       IN  IF r.ok THEN RunAll(r.db, Tail(stmts)) ELSE r

\* DB.batch(stmts)
Batch(db, stmts) ==
  LET r == RunAll(db, stmts)
  IN  IF r.ok THEN r ELSE [ok |-> FALSE, db |-> db]

TagsOf(db, id) == {r[2] : r \in {x \in db.file_tags : x[1] = id}}

\* mutant: the WHERE clause without its EXISTS
MatchesFilenameOnly(db, id, term) == Like(term, db.files[id].filename)

\* WHERE f.filename LIKE ? OR EXISTS (SELECT 1 FROM file_tags WHERE file_id = f.id AND tag LIKE ?)
Matches(db, id, term) ==
  \/ Like(term, db.files[id].filename)
  \/ \E tag \in TagsOf(db, id) : Like(term, tag)

\* ORDER BY f.created_at DESC: the orders of S with created_at descending;
\* rows with equal created_at come in either order.
RECURSIVE Orders(_, _)
Orders(db, S) ==
  IF S = {} THEN {<<>>}
  ELSE UNION {{<<m>> \o o : o \in Orders(db, S \ {m})} :
              m \in {x \in S : \A y \in S :
                                 db.files[y].created_at <= db.files[x].created_at}}

\* mutant: no LIMIT
LimitOff(s, n) == s

\* LIMIT n
Limit(s, n) == SubSeq(s, 1, IF Len(s) < n THEN Len(s) ELSE n)


\* (SELECT GROUP_CONCAT(tag) FROM file_tags WHERE file_id = f.id): NULL for no
\* row, else the tags joined by ',' in an order SQLite does not fix.
GroupConcats(db, id) ==
  IF TagsOf(db, id) = {} THEN {NoStr}
  ELSE {JoinComma(p) : p \in Perms(TagsOf(db, id))}

\* tags: row.tags_str ? row.tags_str.split(',') : []
FormatTags(tags_str) ==
  IF tags_str = NoStr \/ tags_str = <<>> THEN <<>> ELSE SplitComma(tags_str)

ResultRow(db, id, tags_str) ==
  [id |-> id, filename |-> db.files[id].filename, size |-> db.files[id].size,
   created_at |-> db.files[id].created_at, tags |-> FormatTags(tags_str)]

\* the formatted rows of the files listed in o, each with one of the strings
\* GROUP_CONCAT can give for it
RECURSIVE RowsAlong(_, _)
RowsAlong(db, o) ==
  IF o = <<>> THEN {<<>>}
  ELSE {<<ResultRow(db, Head(o), g)>> \o r :
          g \in GroupConcats(db, Head(o)), r \in RowsAlong(db, Tail(o))}

\* The search statement of GET /api/search with its formatting: the set of
\* arrays the handler can answer with.
SearchResults(db, query, n) ==
  LET M == {id \in DOMAIN db.files : Matches(db, id, Term(query))}
  IN  UNION {RowsAlong(db, Limit(o, n)) : o \in Orders(db, M)}

\* LIMIT 50 of GET /api/search
SearchLimit == 50

(***************************************************************************)
(* auth.ts                                                                 *)
(***************************************************************************)
\* mutant: the team secret compared first
checkAuthTeamFirst(token) ==
  IF token = TEAM_PASSWORD THEN TEAM
  ELSE IF token = ADMIN_PASSWORD THEN ADMIN
  ELSE GUEST

\* checkAuth, on the value getCookie gives for doc_auth
checkAuth(token) ==
  IF token = ADMIN_PASSWORD THEN ADMIN
  ELSE IF token = TEAM_PASSWORD THEN TEAM
  ELSE GUEST

\* mutant: the search gate compares with GUEST
BelowTeamOff(cookie) == checkAuth(cookie) < GUEST

\* checkAuth(c) < AuthLevel.TEAM (index.ts 156)
BelowTeam(cookie) == checkAuth(cookie) < TEAM

\* mutant: the admin gate compares with TEAM
BelowAdminLax(cookie) == checkAuth(cookie) < TEAM

\* checkAuth(c) < AuthLevel.ADMIN (index.ts 225, 260, 300)
BelowAdmin(cookie) == checkAuth(cookie) < ADMIN

(***************************************************************************)
(* Requests, responses and invocations.  An invocation takes one request,  *)
(* runs its handler from await to await, holds the response it returns     *)
(* (pc = "done") and ends.                                                 *)
(***************************************************************************)
NoReq ==
  [op |-> "", cookie |-> Undefined, token |-> Undefined, id |-> 0, q |-> <<>>,
   kind |-> "", tags |-> <<>>, name |-> <<>>, size |-> 0, tagsStr |-> <<>>,
   password |-> Undefined]

Idle == [pc |-> "idle", req |-> NoReq, key |-> 0, san |-> <<>>,
         status |-> 0, body |-> <<>>]

Workers == {"w1", "w2"}

\* the handler returns a response
Reply(req, status, body) ==
  [pc |-> "done", req |-> req, key |-> 0, san |-> <<>>,
   status |-> status, body |-> body]

\* the handler awaits its next call, with locals key and san
Await(pc, req, key, san) ==
  [pc |-> pc, req |-> req, key |-> key, san |-> san, status |-> 0, body |-> <<>>]

\* the response is delivered and the invocation ends
Finish(w) ==
  /\ ctx[w].pc = "done"
  /\ ctx' = [ctx EXCEPT ![w] = Idle]
  /\ UNCHANGED <<env, jar, index, bucket, cache, puts, nextId, hist>>

Url(req) == [id |-> req.id, token |-> req.token]

(***************************************************************************)
(* GET / (index.ts 139-142): the page rendered for the caller's level      *)
(***************************************************************************)
Home(w, cookie) ==
  LET req == [NoReq EXCEPT !.op = "home", !.cookie = cookie]
  IN  /\ ctx[w].pc = "idle"
      /\ ctx' = [ctx EXCEPT ![w] = Reply(req, 200, <<checkAuth(cookie)>>)]
      /\ UNCHANGED <<env, jar, index, bucket, cache, puts, nextId, hist>>

(***************************************************************************)
(* GET /api/search (index.ts 155-181)                                      *)
(***************************************************************************)
Search(w, cookie, q) ==
  LET req == [NoReq EXCEPT !.op = "search", !.cookie = cookie, !.q = q]
  IN  /\ ctx[w].pc = "idle"
      /\ IF BelowTeam(cookie)
         THEN ctx' = [ctx EXCEPT ![w] = Reply(req, 401, <<>>)]
         ELSE \E rows \in SearchResults(DBNow, q, SearchLimit) :
                ctx' = [ctx EXCEPT ![w] = Reply(req, 200, rows)]
      /\ UNCHANGED <<env, jar, index, bucket, cache, puts, nextId, hist>>

(***************************************************************************)
(* GET /api/file/:id (index.ts 183-222)                                    *)
(***************************************************************************)
\* mutant: the URL token is not looked at
IsAuthCookieOnly(cookie, urlToken) == checkAuth(cookie) >= TEAM

IsAuth(cookie, urlToken) ==
  IF checkAuth(cookie) >= TEAM THEN TRUE
  ELSE IF urlToken = TEAM_PASSWORD THEN TRUE
  ELSE FALSE

\* mutant: cache.match before the authorization
FileBeginCacheFirst(w, cookie, urlToken, id) ==
  LET req == [NoReq EXCEPT !.op = "file", !.cookie = cookie, !.token = urlToken,
                           !.id = id]
  IN  /\ ctx[w].pc = "idle"
      /\ ctx' = [ctx EXCEPT ![w] =
                   IF Url(req) \in cache THEN Reply(req, 200, <<id>>)
                   ELSE IF ~IsAuth(cookie, urlToken) THEN Reply(req, 401, <<>>)
                   ELSE IF id \notin DOMAIN files THEN Reply(req, 404, <<>>)
                   ELSE Await("file_get", req, files[id].r2_key, <<>>)]
      /\ UNCHANGED <<env, jar, index, bucket, cache, puts, nextId, hist>>

\* Authorization, cache.match and the index lookup.  A miss changes nothing,
\* so the lookup that follows it is taken in the same step.
FileBegin(w, cookie, urlToken, id) ==
  LET req == [NoReq EXCEPT !.op = "file", !.cookie = cookie, !.token = urlToken,
                           !.id = id]
  IN  /\ ctx[w].pc = "idle"
      /\ ctx' = [ctx EXCEPT ![w] =
                   IF ~IsAuth(cookie, urlToken) THEN Reply(req, 401, <<>>)
                   ELSE IF Url(req) \in cache THEN Reply(req, 200, <<id>>)
                   ELSE IF id \notin DOMAIN files THEN Reply(req, 404, <<>>)
                   ELSE Await("file_get", req, files[id].r2_key, <<>>)]
      /\ UNCHANGED <<env, jar, index, bucket, cache, puts, nextId, hist>>

\* BUCKET.get, the response, and waitUntil(cache.put(cacheKey, response.clone()))
FileGet(w) ==
  /\ ctx[w].pc = "file_get"
  /\ IF ctx[w].key \notin bucket
     THEN /\ ctx' = [ctx EXCEPT ![w] = Reply(ctx[w].req, 404, <<>>)]
          /\ puts' = puts
     ELSE /\ ctx' = [ctx EXCEPT ![w] = Reply(ctx[w].req, 200, <<ctx[w].key>>)]
          /\ puts' = puts \cup {Url(ctx[w].req)}
  /\ UNCHANGED <<env, jar, index, bucket, cache, nextId, hist>>

\* the cache.put a response left with waitUntil completes
CachePut(url) ==
  /\ url \in puts
  /\ puts' = puts \ {url}
  /\ cache' = cache \cup {url}
  /\ UNCHANGED <<env, jar, index, bucket, nextId, ctx, hist>>

\* a cached response expires (max-age=14400) or is evicted
CacheExpire(url) ==
  /\ url \in cache
  /\ cache' = cache \ {url}
  /\ UNCHANGED <<env, jar, index, bucket, puts, nextId, ctx, hist>>

\* The tag set a PATCH with the array T asks for: each element trimmed and
\* lowercased, the empty string left out.
NormSet(T) == {toLowerCase(trim(T[i])) : i \in DOMAIN T} \ {<<>>}

\* f with f[k] = v
Put(f, k, v) == [i \in DOMAIN f \cup {k} |-> IF i = k THEN v ELSE f[i]]

(***************************************************************************)
(* POST /api/upload (index.ts 224-256)                                     *)
(***************************************************************************)
\* const tags = tagsStr.split(/\s+/).filter(t => t.length > 0)
UploadTags(tagsStr) == FilterNonEmpty(SplitSpaces(tagsStr))

\* mutant: the batch holds the file row alone
UploadStmtsRowOnly(fileId, name, r2Key, size, now, tags) ==
  <<InsertFile(fileId, name, r2Key, size, now)>>

\* the batch: the file row, then one INSERT OR IGNORE per tag, lowercased
UploadStmts(fileId, name, r2Key, size, now, tags) ==
  <<InsertFile(fileId, name, r2Key, size, now)>>
    \o [i \in 1..Len(tags) |-> InsertTagOrIgnore(fileId, toLowerCase(tags[i]))]

\* The admin check, the File check, crypto.randomUUID() and BUCKET.put.
\* fileId is the UUID drawn: a fresh one, named by the order of drawing.
UploadBegin(w, cookie, isFile, name, size, tagsStr, fileId) ==
  LET req == [NoReq EXCEPT !.op = "upload", !.cookie = cookie, !.name = name,
                           !.size = size, !.tagsStr = tagsStr,
                           !.kind = IF isFile THEN "file" ELSE "nofile"]
  IN  /\ ctx[w].pc = "idle"
      /\ IF BelowAdmin(cookie)
         THEN /\ ctx' = [ctx EXCEPT ![w] = Reply(req, 403, <<>>)]
              /\ UNCHANGED <<bucket, nextId>>
         ELSE IF ~isFile
         THEN /\ ctx' = [ctx EXCEPT ![w] = Reply(req, 400, <<>>)]
              /\ UNCHANGED <<bucket, nextId>>
         ELSE /\ fileId = nextId
              /\ nextId' = nextId + 1
              /\ bucket' = bucket \cup {fileId}
              /\ ctx' = [ctx EXCEPT ![w] =
                           Await("upload_batch", [req EXCEPT !.id = fileId],
                                 fileId, <<>>)]
      /\ UNCHANGED <<env, jar, index, cache, puts, hist>>

\* tagsStr.split (a TypeError when the form has no tags field, which Hono
\* answers with 500), then DB.batch and the response.
UploadBatch(w, now) ==
  LET req == ctx[w].req
      r == Batch(DBNow, UploadStmts(req.id, req.name, ctx[w].key, req.size, now,
                                    UploadTags(req.tagsStr)))
  IN  /\ ctx[w].pc = "upload_batch"
      /\ IF req.tagsStr = NoStr \/ ~r.ok
         THEN /\ ctx' = [ctx EXCEPT ![w] = Reply(req, 500, <<>>)]
              /\ UNCHANGED <<index, written>>
         ELSE /\ ctx' = [ctx EXCEPT ![w] = Reply(req, 200, <<>>)]
              /\ files' = r.db.files
              /\ file_tags' = r.db.file_tags
              /\ written' = Put(written, req.id, TagsOf(r.db, req.id))
      /\ UNCHANGED <<env, jar, bucket, cache, puts, nextId, deleted>>

(***************************************************************************)
(* PATCH /api/file/:id/tags (index.ts 259-297)                             *)
(***************************************************************************)
\* mutant: no trim
SanitizeNoTrim(tagsArray) ==
  FilterNonEmpty([i \in 1..Len(tagsArray) |-> toLowerCase(tagsArray[i])])

\* tagsArray.map(t => String(t).trim().toLowerCase()).filter(t => t.length > 0)
Sanitize(tagsArray) ==
  FilterNonEmpty([i \in 1..Len(tagsArray) |-> toLowerCase(trim(tagsArray[i]))])

\* mutant: the batch without its DELETE
TagsStmtsNoDelete(id, sanitizedTags) ==
  [i \in 1..Len(sanitizedTags) |-> InsertTagOrIgnore(id, sanitizedTags[i])]

\* mutant: tags that are stored already are taken off instead
TagsStmtsToggle(id, sanitizedTags) ==
  <<DeleteTags(id)>>
    \o (IF TagsOf(DBNow, id) = Range(sanitizedTags) THEN <<>>
        ELSE [i \in 1..Len(sanitizedTags) |-> InsertTagOrIgnore(id, sanitizedTags[i])])

\* the batch: DELETE the file's tag rows, then one INSERT OR IGNORE per tag
TagsStmts(id, sanitizedTags) ==
  <<DeleteTags(id)>>
    \o [i \in 1..Len(sanitizedTags) |-> InsertTagOrIgnore(id, sanitizedTags[i])]

\* mutant: the existence check left out
TagsBeginNoLookup(w, cookie, id, kind, tagsArray) ==
  LET req == [NoReq EXCEPT !.op = "tags", !.cookie = cookie, !.id = id,
                           !.kind = kind, !.tags = tagsArray]
  IN  /\ ctx[w].pc = "idle"
      /\ ctx' = [ctx EXCEPT ![w] =
                   IF BelowAdmin(cookie) THEN Reply(req, 403, <<>>)
                   ELSE IF kind \in {"nojson", "null"} THEN Reply(req, 500, <<>>)
                   ELSE IF kind # "array" THEN Reply(req, 400, <<>>)
                   ELSE Await("tags_batch", req, 0, Sanitize(tagsArray))]
      /\ UNCHANGED <<env, jar, index, bucket, cache, puts, nextId, hist>>

\* The admin check, c.req.json(), the Array.isArray check and the existence
\* check.  kind is what the body is: "array" ({tags: [...]}), "nonarray" (an
\* object whose tags is no array), "null" (JSON null: body.tags throws) or
\* "nojson" (c.req.json() throws).
TagsBegin(w, cookie, id, kind, tagsArray) ==
  LET req == [NoReq EXCEPT !.op = "tags", !.cookie = cookie, !.id = id,
                           !.kind = kind, !.tags = tagsArray]
  IN  /\ ctx[w].pc = "idle"
      /\ ctx' = [ctx EXCEPT ![w] =
                   IF BelowAdmin(cookie) THEN Reply(req, 403, <<>>)
                   ELSE IF kind \in {"nojson", "null"} THEN Reply(req, 500, <<>>)
                   ELSE IF kind # "array" THEN Reply(req, 400, <<>>)
                   ELSE IF id \notin DOMAIN files THEN Reply(req, 404, <<>>)
                   ELSE Await("tags_batch", req, 0, Sanitize(tagsArray))]
      /\ UNCHANGED <<env, jar, index, bucket, cache, puts, nextId, hist>>

\* DB.batch(batch) and the response, or the catch when the batch fails
TagsBatch(w) ==
  LET req == ctx[w].req
      r == Batch(DBNow, TagsStmts(req.id, ctx[w].san))
  IN  /\ ctx[w].pc = "tags_batch"
      /\ IF ~r.ok
         THEN /\ ctx' = [ctx EXCEPT ![w] = Reply(req, 500, <<>>)]
              /\ UNCHANGED <<index, written>>
         ELSE /\ ctx' = [ctx EXCEPT ![w] = Reply(req, 200, ctx[w].san)]
              /\ files' = r.db.files
              /\ file_tags' = r.db.file_tags
              /\ written' = Put(written, req.id, NormSet(req.tags))
      /\ UNCHANGED <<env, jar, bucket, cache, puts, nextId, deleted>>

(***************************************************************************)
(* DELETE /api/file/:id (index.ts 299-312)                                 *)
(***************************************************************************)
\* mutant: an id without a row is answered 404
DeleteBeginNotFound(w, cookie, id) ==
  LET req == [NoReq EXCEPT !.op = "delete", !.cookie = cookie, !.id = id]
  IN  /\ ctx[w].pc = "idle"
      /\ ctx' = [ctx EXCEPT ![w] =
                   IF BelowAdmin(cookie) THEN Reply(req, 403, <<>>)
                   ELSE IF id \notin DOMAIN files THEN Reply(req, 404, <<>>)
                   ELSE Await("delete_blob", req, files[id].r2_key, <<>>)]
      /\ UNCHANGED <<env, jar, index, bucket, cache, puts, nextId, hist>>

\* The admin check and SELECT r2_key FROM files WHERE id = ?
DeleteBegin(w, cookie, id) ==
  LET req == [NoReq EXCEPT !.op = "delete", !.cookie = cookie, !.id = id]
  IN  /\ ctx[w].pc = "idle"
      /\ ctx' = [ctx EXCEPT ![w] =
                   IF BelowAdmin(cookie) THEN Reply(req, 403, <<>>)
                   ELSE IF id \notin DOMAIN files THEN Reply(req, 200, <<>>)
                   ELSE Await("delete_blob", req, files[id].r2_key, <<>>)]
      /\ UNCHANGED <<env, jar, index, bucket, cache, puts, nextId, hist>>

\* mutant: the blob is left in the bucket
DeleteBlobSkip(w) ==
  /\ ctx[w].pc = "delete_blob"
  /\ bucket' = bucket
  /\ ctx' = [ctx EXCEPT ![w].pc = "delete_tags"]
  /\ UNCHANGED <<env, jar, index, cache, puts, nextId, hist>>

\* BUCKET.delete(file.r2_key)
DeleteBlob(w) ==
  /\ ctx[w].pc = "delete_blob"
  /\ bucket' = bucket \ {ctx[w].key}
  /\ ctx' = [ctx EXCEPT ![w].pc = "delete_tags"]
  /\ UNCHANGED <<env, jar, index, cache, puts, nextId, hist>>

\* DELETE FROM file_tags WHERE file_id = ?
DeleteTagRows(w) ==
  LET r == Exec(DBNow, DeleteTags(ctx[w].req.id))
  IN  /\ ctx[w].pc = "delete_tags"
      /\ files' = r.db.files
      /\ file_tags' = r.db.file_tags
      /\ written' = Put(written, ctx[w].req.id, {})
      /\ ctx' = [ctx EXCEPT ![w].pc = "delete_row"]
      /\ UNCHANGED <<env, jar, bucket, cache, puts, nextId, deleted>>

\* DELETE FROM files WHERE id = ?, and the response
DeleteFileRow(w) ==
  LET r == Exec(DBNow, DeleteFile(ctx[w].req.id))
  IN  /\ ctx[w].pc = "delete_row"
      /\ files' = r.db.files
      /\ file_tags' = r.db.file_tags
      /\ deleted' = deleted \cup {ctx[w].req.id}
      /\ ctx' = [ctx EXCEPT ![w] = Reply(ctx[w].req, 200, <<>>)]
      /\ UNCHANGED <<env, jar, bucket, cache, puts, nextId, written>>

(***************************************************************************)
(* POST /api/telegram (index.ts 318-370)                                   *)
(***************************************************************************)
\* LIMIT 10 of POST /api/telegram
TelegramLimit == 10

\* files f LEFT JOIN file_tags ft ON f.id = ft.file_id: one row <<id, tag>>
\* per tag row, one row <<id, NULL>> for a file without tags
JoinRows(db) ==
  {<<id, NoStr>> : id \in {f \in DOMAIN db.files : TagsOf(db, f) = {}}}
    \cup {r \in db.file_tags : r[1] \in DOMAIN db.files}

\* WHERE f.filename LIKE ? OR ft.tag LIKE ?  (NULL LIKE ? is not true)
JoinMatches(db, term) ==
  {r \in JoinRows(db) :
     \/ Like(term, db.files[r[1]].filename)
     \/ r[2] # NoStr /\ Like(term, r[2])}

\* mutant: the projection without DISTINCT (rows of one file stay apart)
ProjectAll(R) == R

\* SELECT DISTINCT f.id, f.filename, f.size: the tag column is dropped and
\* equal rows are one row
Distinct(R) == {<<r[1], NoStr>> : r \in R}

\* ORDER BY f.created_at DESC over joined rows
RECURSIVE OrdersJoin(_, _)
OrdersJoin(db, R) ==
  IF R = {} THEN {<<>>}
  ELSE UNION {{<<m>> \o o : o \in OrdersJoin(db, R \ {m})} :
              m \in {x \in R : \A y \in R :
                                 db.files[y[1]].created_at <= db.files[x[1]].created_at}}

\* the result arrays the statement of POST /api/telegram can give
TelegramResults(db, text, n) ==
  {[i \in 1..Len(Limit(o, n)) |->
      [id |-> o[i][1], filename |-> db.files[o[i][1]].filename,
       size |-> db.files[o[i][1]].size]] :
     o \in OrdersJoin(db, Distinct(JoinMatches(db, Term(text))))}

TokenKey == <<"t", "o", "k", "e", "n">>

\* `${host}/api/file/${file.id}?token=${c.env.TEAM_PASSWORD}`: the id in the
\* path (a UUID, which needs no coding) and the query string as written
DownloadLink(id) ==
  [id |-> id, query |-> TokenKey \o <<"=">> \o Chars(TEAM_PASSWORD)]

\* the results with the link the reply text gives for each
ReplyLinks(results) ==
  [i \in DOMAIN results |->
     [id |-> results[i].id, filename |-> results[i].filename,
      size |-> results[i].size, link |-> DownloadLink(results[i].id)]]

\* what GET /api/file/:id reads from a request to the link: c.req.param('id')
\* and c.req.query('token')
LinkRequest(link) ==
  [id |-> link.id,
   token |-> IF QueryParam(link.query, TokenKey) = NoStr THEN Undefined
             ELSE Str(QueryParam(link.query, TokenKey))]

\* c.req.json(), the message checks, message.chat.id, message.text.trim() and
\* the search.  kind is what the update is: "nojson" (c.req.json() throws),
\* "nomessage" (no message, or a message without text), "nochat" (a text
\* message without chat: message.chat.id throws) or "text".  The results
\* with their links are the local the reply text is built from.
TelegramBegin(w, kind, text) ==
  LET req == [NoReq EXCEPT !.op = "telegram", !.kind = kind, !.q = text]
  IN  /\ ctx[w].pc = "idle"
      /\ IF kind = "nomessage"
         THEN ctx' = [ctx EXCEPT ![w] = Reply(req, 200, <<>>)]
         ELSE IF kind \in {"nojson", "nochat"}
         THEN ctx' = [ctx EXCEPT ![w] = Reply(req, 500, <<>>)]
         ELSE \E results \in TelegramResults(DBNow, trim(text), TelegramLimit) :
                ctx' = [ctx EXCEPT ![w] =
                          Await("telegram_send", req, 0, ReplyLinks(results))]
      /\ UNCHANGED <<env, jar, index, bucket, cache, puts, nextId, hist>>

\* await fetch(.../sendMessage): it resolves, whatever the status of the
\* answer (sent), or rejects on a network error and the catch answers
TelegramSend(w, sent) ==
  /\ ctx[w].pc = "telegram_send"
  /\ ctx' = [ctx EXCEPT ![w] = Reply(ctx[w].req, IF sent THEN 200 ELSE 500, <<>>)]
  /\ UNCHANGED <<env, jar, index, bucket, cache, puts, nextId, hist>>

(***************************************************************************)
(* POST /api/login (auth.ts 26-40) and POST /api/logout (index.ts 146-149),*)
(* called by a browser, which keeps the cookie the response sets and sends *)
(* it with its later requests.                                             *)
(***************************************************************************)
\* setCookie(c, 'doc_auth', value, ...): the text the browser keeps
SetCookie(value) == encodeURIComponent(Chars(value))

\* mutant: the cookie text is not decoded
GetCookieRaw(text) == IF text = NoStr THEN Undefined ELSE Str(text)

\* getCookie(c, 'doc_auth') on the Cookie header the browser sends
GetCookie(text) ==
  IF text = NoStr THEN Undefined ELSE Str(decodeURIComponent(text))

\* handleLogin.  kind is "object" (a JSON object; password is undefined when
\* it has none) or "nojson" (c.req.json() throws and Hono answers 500).
Login(w, kind, password) ==
  LET req == [NoReq EXCEPT !.op = "login", !.kind = kind, !.password = password,
                           !.cookie = GetCookie(jar)]
  IN  /\ ctx[w].pc = "idle"
      /\ IF kind = "nojson"
         THEN /\ ctx' = [ctx EXCEPT ![w] = Reply(req, 500, <<>>)]
              /\ jar' = jar
         ELSE IF password = ADMIN_PASSWORD
         THEN /\ ctx' = [ctx EXCEPT ![w] = Reply(req, 200, <<ADMIN>>)]
              /\ jar' = SetCookie(ADMIN_PASSWORD)
         ELSE IF password = TEAM_PASSWORD
         THEN /\ ctx' = [ctx EXCEPT ![w] = Reply(req, 200, <<TEAM>>)]
              /\ jar' = SetCookie(TEAM_PASSWORD)
         ELSE /\ ctx' = [ctx EXCEPT ![w] = Reply(req, 401, <<>>)]
              /\ jar' = jar
      /\ UNCHANGED <<env, index, bucket, cache, puts, nextId, hist>>

\* deleteCookie(c, 'doc_auth'): Set-Cookie with Max-Age=0 and Path=/, on
\* which the browser drops the cookie
Logout(w) ==
  LET req == [NoReq EXCEPT !.op = "logout", !.cookie = GetCookie(jar)]
  IN  /\ ctx[w].pc = "idle"
      /\ ctx' = [ctx EXCEPT ![w] = Reply(req, 200, <<>>)]
      /\ jar' = NoStr
      /\ UNCHANGED <<env, index, bucket, cache, puts, nextId, hist>>

\* the browser opens GET / with the cookie it keeps
Visit(w) == Home(w, GetCookie(jar))

(***************************************************************************)
(* A call a handler awaits (D1, R2, fetch) rejects, or the invocation is   *)
(* stopped there: nothing more of the handler runs; the caller gets 500    *)
(* from the handler's catch or from Hono.                                  *)
(***************************************************************************)
Fail(w) ==
  /\ ctx[w].pc \notin {"idle", "done"}
  /\ ctx' = [ctx EXCEPT ![w] = Reply(ctx[w].req, 500, <<>>)]
  /\ UNCHANGED <<env, jar, index, bucket, cache, puts, nextId, hist>>

(***************************************************************************)
(* The state after deployment: the schema just created, nothing stored.    *)
(***************************************************************************)
InitOver(configs) ==
  /\ \E c \in configs : ADMIN_PASSWORD = c[1] /\ TEAM_PASSWORD = c[2]
  /\ files = <<>>
  /\ file_tags = {}
  /\ bucket = {}
  /\ cache = {}
  /\ puts = {}
  /\ nextId = 1
  /\ ctx = [w \in Workers |-> Idle]
  /\ deleted = {}
  /\ written = <<>>
  /\ jar = NoStr

\* the arrays of at most n elements of S
Arrays(S, n) == UNION {[1..k -> S] : k \in 0..n}

(***************************************************************************)
(* One step of some invocation, its inputs drawn from the sets of D.       *)
(***************************************************************************)
NextOver(D) ==
  \/ \E w \in D.workers, cookie \in D.cookies : Home(w, cookie)
  \/ \E w \in D.workers, cookie \in D.cookies, q \in D.queries : Search(w, cookie, q)
  \/ \E w \in D.workers, cookie \in D.cookies, urlToken \in D.tokens, id \in D.getIds :
       FileBegin(w, cookie, urlToken, id)
  \/ \E w \in D.workers : FileGet(w)
  \/ \E url \in puts : CachePut(url)
  \/ \E url \in cache : CacheExpire(url)
  \/ \E w \in D.workers, cookie \in D.cookies, isFile \in D.isFile,
        name \in D.names, size \in D.sizes, tagsStr \in D.tagStrs, fileId \in D.ids :
       UploadBegin(w, cookie, isFile, name, size, tagsStr, fileId)
  \/ \E w \in D.workers, now \in D.times : UploadBatch(w, now)
  \/ \E w \in D.workers, cookie \in D.cookies, id \in D.ids, kind \in D.kinds,
        tagsArray \in D.tagArrays :
       TagsBegin(w, cookie, id, kind, tagsArray)
  \/ \E w \in D.workers : TagsBatch(w)
  \/ \E w \in D.workers, cookie \in D.cookies, id \in D.ids : DeleteBegin(w, cookie, id)
  \/ \E w \in D.workers : DeleteBlob(w)
  \/ \E w \in D.workers : DeleteTagRows(w)
  \/ \E w \in D.workers : DeleteFileRow(w)
  \/ \E w \in D.workers : Finish(w)

\* NextOver with the webhook of the messaging platform
NextAll(D) ==
  \/ NextOver(D)
  \/ \E w \in D.workers, kind \in D.updates, text \in D.texts : TelegramBegin(w, kind, text)
  \/ \E w \in D.workers, sent \in D.sends : TelegramSend(w, sent)

\* NextAll with the browser's login, logout and visits, and with failures
NextFull(D) ==
  \/ NextAll(D)
  \/ \E w \in D.workers, kind \in D.logins, password \in D.passwords :
       Login(w, kind, password)
  \/ \E w \in D.workers : Logout(w)
  \/ \E w \in D.workers : Visit(w)
  \/ \E w \in D.workers : Fail(w)

(***************************************************************************)
(* Spec: one invocation at a time, every handler, every credential and     *)
(* every configuration of the two secrets.                                 *)
(***************************************************************************)
Secrets == {"adm", "team"}

Cookies == {Undefined, "adm", "team", "other"}

Inputs ==
  [workers |-> {"w1"}, cookies |-> Cookies, tokens |-> {Undefined, "team"},
   ids |-> 1..MaxFiles, getIds |-> 1..MaxFiles,
   queries |-> {<<>>, <<"a">>}, isFile |-> BOOLEAN,
   names |-> {<<"a">>}, sizes |-> {1}, tagStrs |-> {<<"a">>}, times |-> {1},
   kinds |-> {"array", "nonarray"}, tagArrays |-> Arrays({<<"b">>}, 1)]

Init == InitOver(Secrets \X Secrets)

Next == NextOver(Inputs)

Spec == Init /\ [][Next]_vars

(***************************************************************************)
(* SpecTags: one invocation at a time by an admin, over tag arrays, file   *)
(* names and queries with spaces, capitals and the characters LIKE reads   *)
(* as wildcards.                                                           *)
(***************************************************************************)
RawTags == {<<" ", "A">>, <<"a">>, <<"b", " ">>, <<>>}

Queries == {<<>>, <<"a">>, <<"A">>, <<"b">>, <<"_">>}

TagInputs ==
  [workers |-> {"w1"}, cookies |-> {"adm"}, tokens |-> {Undefined},
   ids |-> 1..MaxFilesTags, getIds |-> {1},
   queries |-> Queries, isFile |-> {TRUE},
   names |-> {<<"a", "b">>, <<"x">>}, sizes |-> {1}, tagStrs |-> {<<"a">>},
   times |-> {1}, kinds |-> {"array"}, tagArrays |-> Arrays(RawTags, MaxTags)]

InitTags == InitOver({<<"adm", "team">>})

NextTags == NextOver(TagInputs)

SpecTags == InitTags /\ [][NextTags]_vars

(***************************************************************************)
(* SpecConc: two invocations by an admin, their steps interleaved.         *)
(***************************************************************************)
ConcInputs ==
  [workers |-> Workers, cookies |-> {"adm"}, tokens |-> {Undefined},
   ids |-> 1..MaxFilesConc, getIds |-> {1},
   queries |-> {<<"a">>}, isFile |-> {TRUE},
   names |-> {<<"a">>}, sizes |-> {1}, tagStrs |-> {<<"a">>}, times |-> {1},
   kinds |-> {"array"}, tagArrays |-> Arrays({<<"a">>, <<"b">>}, MaxTags)]

InitConc == InitOver({<<"adm", "team">>})

NextConc == NextOver(ConcInputs)

SpecConc == InitConc /\ [][NextConc]_vars

(***************************************************************************)
(* SpecEdge: one invocation at a time by an admin, with the webhook, over  *)
(* tags that hold a comma, tag strings with capitals and repeats, and      *)
(* request bodies that are no JSON object.                                 *)
(***************************************************************************)
EdgeInputs ==
  [workers |-> {"w1"}, cookies |-> {"adm"}, tokens |-> {Undefined},
   ids |-> 1..MaxFilesEdge, getIds |-> {1},
   queries |-> {<<>>, <<"a">>}, isFile |-> {TRUE},
   names |-> {<<"a">>, <<"x">>}, sizes |-> {1},
   tagStrs |-> {<<"a", ",", "b">>, <<"A", " ", "a">>},
   times |-> {1}, kinds |-> {"array", "nonarray", "null", "nojson"},
   tagArrays |-> Arrays({<<"a">>, <<"a", "b">>}, MaxTags),
   updates |-> {"nojson", "nomessage", "nochat", "text"}, texts |-> {<<" ", "a">>},
   sends |-> BOOLEAN]

InitEdge == InitOver({<<"adm", "team">>})

NextEdge == NextAll(EdgeInputs)

SpecEdge == InitEdge /\ [][NextEdge]_vars

(***************************************************************************)
(* SpecCap: one invocation at a time by an admin, with the webhook, on a   *)
(* store that already holds as many files as a search may list: SearchLimit*)
(* untagged files uploaded one after the other, named "a" and "b" in turn. *)
(***************************************************************************)
StoredAtStart == 1..SearchLimit

InitCap ==
  /\ ADMIN_PASSWORD = "adm" /\ TEAM_PASSWORD = "team"
  /\ files = [i \in StoredAtStart |->
                [filename |-> IF i % 2 = 1 THEN <<"a">> ELSE <<"b">>,
                 r2_key |-> i, size |-> 1, created_at |-> i]]
  /\ file_tags = {}
  /\ bucket = StoredAtStart
  /\ cache = {}
  /\ puts = {}
  /\ nextId = SearchLimit + 1
  /\ ctx = [w \in Workers |-> Idle]
  /\ deleted = {}
  /\ written = [i \in StoredAtStart |-> {}]
  /\ jar = NoStr

CapInputs ==
  [workers |-> {"w1"}, cookies |-> {"adm"}, tokens |-> {Undefined},
   ids |-> (SearchLimit + 1)..(SearchLimit + MaxFilesCap), getIds |-> {1},
   queries |-> {<<>>, <<"a">>}, isFile |-> {TRUE},
   names |-> {<<"a">>}, sizes |-> {1}, tagStrs |-> {<<"b">>},
   times |-> {SearchLimit, SearchLimit + 1}, kinds |-> {"array"},
   tagArrays |-> {<<>>},
   updates |-> {"nomessage", "text"}, texts |-> {<<" ">>, <<"a">>},
   sends |-> BOOLEAN]

NextCap == NextAll(CapInputs)

SpecCap == InitCap /\ [][NextCap]_vars

(***************************************************************************)
(* SpecLink: one invocation at a time, with the browser and the webhook,   *)
(* under a team secret of letters and under one with a character that URLs *)
(* and cookies give a meaning to.                                          *)
(***************************************************************************)
LinkInputs ==
  [workers |-> {"w1"}, cookies |-> {"adm"}, tokens |-> {Undefined, "p&q"},
   ids |-> 1..MaxFilesLink, getIds |-> {1},
   queries |-> {<<"a">>}, isFile |-> {TRUE},
   names |-> {<<"a">>}, sizes |-> {1}, tagStrs |-> {<<"a">>},
   times |-> {1}, kinds |-> {"array"}, tagArrays |-> {<<>>},
   updates |-> {"nomessage", "text"}, texts |-> {<<"a">>}, sends |-> {TRUE},
   logins |-> {"object", "nojson"},
   passwords |-> {Undefined, "adm", "team", "p&q", "other"}]

InitLink == InitOver({<<"adm", "team">>, <<"adm", "p&q">>})

NextLink == NextFull(LinkInputs)

SpecLink == InitLink /\ [][NextLink]_vars

(***************************************************************************)
(* SpecFail: one invocation at a time by an admin, where every awaited     *)
(* call may fail and an upload may come without its tags field.            *)
(***************************************************************************)
FailInputs ==
  [workers |-> {"w1"}, cookies |-> {"adm"}, tokens |-> {Undefined},
   ids |-> 1..MaxFilesFail, getIds |-> {1},
   queries |-> {<<"a">>}, isFile |-> {TRUE},
   names |-> {<<"a">>}, sizes |-> {1}, tagStrs |-> {<<"A", " ", "b">>, NoStr},
   times |-> {1}, kinds |-> {"array"}, tagArrays |-> {<<>>, << <<"c">> >>},
   updates |-> {"text"}, texts |-> {<<"a">>}, sends |-> {TRUE},
   logins |-> {"object"}, passwords |-> {"adm"}]

InitFail == InitOver({<<"adm", "team">>})

NextFail == NextFull(FailInputs)

SpecFail == InitFail /\ [][NextFail]_vars


(***************************************************************************)
(* The claims.                                                             *)
(***************************************************************************)
Done(w, op) == ctx[w].pc = "done" /\ ctx[w].req.op = op

\* how often id is listed in the rows of a search response
Count(rows, id) == Cardinality({i \in DOMAIN rows : rows[i].id = id})

\* q occurs in s as a substring, ASCII case ignored
Contains(s, q) ==
  \E i \in 0..(Len(s) - Len(q)) :
    toLowerCase(SubSeq(s, i + 1, i + Len(q))) = toLowerCase(q)

AdminOps == {"upload", "tags", "delete"}

\* C1: checkAuth gives ADMIN iff the cookie equals the admin secret, else
\* TEAM iff it equals the team secret, else GUEST; no cookie gives GUEST
\* under every configuration of the two secrets.  (GET / renders the page
\* for the level checkAuth returns.)
C1_CheckAuthExactMatch ==
  \A w \in Workers :
    Done(w, "home") =>
      LET c == ctx[w].req.cookie
          lv == ctx[w].body[1]
      IN  /\ (lv = ADMIN) = (c = ADMIN_PASSWORD)
          /\ (lv = TEAM) = (c # ADMIN_PASSWORD /\ c = TEAM_PASSWORD)
          /\ (lv = GUEST) = (c \notin {ADMIN_PASSWORD, TEAM_PASSWORD})
          /\ (c = Undefined => lv = GUEST)

C1_Witness ==
  \E w \in Workers :
    /\ Done(w, "home")
    /\ ctx[w].req.cookie = Undefined
    /\ ctx[w].body = <<GUEST>>
    /\ ADMIN_PASSWORD = TEAM_PASSWORD

\* C2: an upload, tag replace or delete whose cookie is not the admin secret
\* is answered 403 in its first step, and that step leaves the bucket, files
\* and file_tags as they were.
C2_AdminOnlyDenied ==
  [][\A w \in Workers :
       (/\ ctx[w].pc # "done"
        /\ ctx'[w].pc = "done"
        /\ ctx'[w].req.op \in AdminOps
        /\ ctx'[w].req.cookie # ADMIN_PASSWORD)
       => (/\ ctx[w].pc = "idle"
           /\ ctx'[w].status = 403
           /\ bucket' = bucket
           /\ files' = files
           /\ file_tags' = file_tags)]_vars

C2_Witness ==
  \E w \in Workers :
    /\ Done(w, "tags")
    /\ ctx[w].req.cookie = TEAM_PASSWORD
    /\ TEAM_PASSWORD # ADMIN_PASSWORD
    /\ ctx[w].status = 403
    /\ DOMAIN files # {}
    /\ file_tags # {}

\* C3: a search whose cookie matches neither secret is answered 401 with no
\* row; one whose cookie is the team or the admin secret is answered 200 with
\* the rows of the matching files.
C3_SearchGate ==
  \A w \in Workers :
    Done(w, "search") =>
      IF ctx[w].req.cookie \in {ADMIN_PASSWORD, TEAM_PASSWORD}
      THEN /\ ctx[w].status = 200
           /\ {ctx[w].body[i].id : i \in DOMAIN ctx[w].body}
                = {id \in DOMAIN files : Matches(DBNow, id, Term(ctx[w].req.q))}
      ELSE /\ ctx[w].status = 401
           /\ ctx[w].body = <<>>

C3_Witness ==
  \E w \in Workers :
    /\ Done(w, "search")
    /\ ctx[w].req.cookie = Undefined
    /\ ctx[w].status = 401
    /\ DOMAIN files # {}

\* C4 (as claimed): on every protected endpoint a request without a valid
\* credential is answered 401, and 403 goes only to a caller at level TEAM.
C4_Taxonomy ==
  \A w \in Workers :
    (ctx[w].pc = "done" /\ ctx[w].req.op \in AdminOps \cup {"search", "file"}) =>
      LET c == ctx[w].req.cookie
          guest == /\ c \notin {ADMIN_PASSWORD, TEAM_PASSWORD}
                   /\ ctx[w].req.op = "file" => ctx[w].req.token # TEAM_PASSWORD
      IN  /\ guest => ctx[w].status = 401
          /\ ctx[w].status = 403 => (c = TEAM_PASSWORD /\ c # ADMIN_PASSWORD)

\* C5: after a successful tag replace with the array T the stored tag set of
\* the file is exactly the trimmed, lowercased, non-empty elements of T.
C5_FullReplacement ==
  \A w \in Workers :
    (Done(w, "tags") /\ ctx[w].status = 200) =>
      TagsOf(DBNow, ctx[w].req.id) = NormSet(ctx[w].req.tags)

C5_Witness ==
  \E w \in Workers :
    /\ Done(w, "tags")
    /\ ctx[w].status = 200
    /\ ctx[w].req.tags = << <<"b", " ">>, <<>> >>
    /\ TagsOf(DBNow, ctx[w].req.id) = {<<"b">>}

\* C6 (as claimed): the tags array a successful tag replace returns lists the
\* stored tag set, each tag once.
C6_ReturnedTagsAreStored ==
  \A w \in Workers :
    (Done(w, "tags") /\ ctx[w].status = 200) =>
      /\ Range(ctx[w].body) = TagsOf(DBNow, ctx[w].req.id)
      /\ Len(ctx[w].body) = Cardinality(TagsOf(DBNow, ctx[w].req.id))

\* the queries that are tags: non-empty, trimmed, lowercase, no wildcard
TagQueries == {<<"a">>, <<"b">>}

\* C7 (as claimed): after a tag replace that stores S, a search by a member
\* of S returns the file exactly once and a search by anything not in S does
\* not return it.
C7_Original ==
  \A w \in Workers :
    (Done(w, "tags") /\ ctx[w].status = 200) =>
      \A q \in TagQueries :
        \A rows \in SearchResults(DBNow, q, SearchLimit) :
          Count(rows, ctx[w].req.id)
            = IF q \in NormSet(ctx[w].req.tags) THEN 1 ELSE 0

\* C7 (amended): after a tag replace that stores S, a search by a member of S
\* returns the file exactly once when no more than the cap of files match,
\* and a search whose pattern %q% matches neither the filename nor a member
\* of S does not return it.
C7_ReplaceThenSearch ==
  \A w \in Workers :
    (Done(w, "tags") /\ ctx[w].status = 200) =>
      LET id == ctx[w].req.id
          S == NormSet(ctx[w].req.tags)
      IN  \A q \in Queries :
            \A rows \in SearchResults(DBNow, q, SearchLimit) :
              /\ (/\ q \in S
                  /\ Cardinality({f \in DOMAIN files :
                                    Matches(DBNow, f, Term(q))}) <= SearchLimit)
                 => Count(rows, id) = 1
              /\ (/\ ~Like(Term(q), files[id].filename)
                  /\ \A t \in S : ~Like(Term(q), t))
                 => Count(rows, id) = 0

C7_Witness ==
  \E w \in Workers :
    /\ Done(w, "tags")
    /\ ctx[w].status = 200
    /\ NormSet(ctx[w].req.tags) = {<<"a">>}
    /\ files[ctx[w].req.id].filename = <<"x">>
    /\ Cardinality(DOMAIN files) = 2

\* C8 (as claimed): once a delete has removed a file, every later authorized
\* GET /api/file/:id of that id is answered 404 and no later search lists it.
C8_DeletedStaysGone ==
  \A w \in Workers :
    /\ (Done(w, "file") /\ ctx[w].status # 401 /\ ctx[w].req.id \in deleted)
         => ctx[w].status = 404
    /\ (Done(w, "search") /\ ctx[w].status = 200)
         => \A i \in DOMAIN ctx[w].body : ctx[w].body[i].id \notin deleted

\* C9: the stored tag set of a file is at every moment the set one index
\* write gave it, never a mixture of two; after two concurrent successful
\* replaces it is the normalized input of one of them.
C9_ReplaceAtomic ==
  /\ \A id \in DOMAIN files :
       id \in DOMAIN written /\ TagsOf(DBNow, id) = written[id]
  /\ \A v, w \in Workers :
       (/\ v # w
        /\ Done(v, "tags") /\ ctx[v].status = 200
        /\ Done(w, "tags") /\ ctx[w].status = 200
        /\ ctx[v].req.id = ctx[w].req.id
        /\ ctx[v].req.id \in DOMAIN files)
       => TagsOf(DBNow, ctx[v].req.id)
            \in {NormSet(ctx[v].req.tags), NormSet(ctx[w].req.tags)}

C9_Witness ==
  /\ Done("w1", "tags") /\ ctx["w1"].status = 200
  /\ Done("w2", "tags") /\ ctx["w2"].status = 200
  /\ ctx["w1"].req.id = ctx["w2"].req.id
  /\ NormSet(ctx["w1"].req.tags) = {<<"a">>}
  /\ NormSet(ctx["w2"].req.tags) = {<<"b">>}
  /\ TagsOf(DBNow, ctx["w1"].req.id) = {<<"a">>}

\* C10 (as claimed): a search returns a file only if its filename or one of
\* its tags contains the query as a substring, and returns every such file,
\* whatever characters the query holds.
C10_SubstringMatch ==
  \A w \in Workers :
    (Done(w, "search") /\ ctx[w].status = 200) =>
      LET q == ctx[w].req.q
          hit(id) == \/ Contains(files[id].filename, q)
                     \/ \E t \in TagsOf(DBNow, id) : Contains(t, q)
          listed == {ctx[w].body[i].id : i \in DOMAIN ctx[w].body}
      IN  /\ \A id \in listed : hit(id)
          /\ Cardinality({id \in DOMAIN files : hit(id)}) <= SearchLimit
               => \A id \in DOMAIN files : hit(id) => id \in listed

\* C11 (as claimed): the tags array of every row of a search response is the
\* tag set stored for that file, each stored tag once, the empty array for a
\* file without tags.
C11_FullTagSet ==
  \A w \in Workers :
    (Done(w, "search") /\ ctx[w].status = 200) =>
      \A i \in DOMAIN ctx[w].body :
        /\ Range(ctx[w].body[i].tags) = TagsOf(DBNow, ctx[w].body[i].id)
        /\ Len(ctx[w].body[i].tags) = Cardinality(TagsOf(DBNow, ctx[w].body[i].id))

\* C12: no file id is listed twice in a search response, nor in the results
\* the webhook builds its reply from, also for a file whose name and several
\* of whose tags match.
C12_EachFileOnce ==
  \A w \in Workers :
    /\ (Done(w, "search") /\ ctx[w].status = 200)
         => \A id \in DOMAIN files : Count(ctx[w].body, id) <= 1
    /\ ctx[w].pc = "telegram_send"
         => \A id \in DOMAIN files : Count(ctx[w].san, id) <= 1

C12_Witness ==
  \E w \in Workers :
    /\ ctx[w].pc = "telegram_send"
    /\ 1 \in DOMAIN files
    /\ files[1].filename = <<"a">>
    /\ TagsOf(DBNow, 1) = {<<"a">>, <<"a", "b">>}
    /\ Count(ctx[w].san, 1) = 1

\* ids is the list a query with cap n gives for the files M that match it:
\* no more than n of them, newest first, all of M when M has no more than n
\* files, and no file of M left out that is newer than a listed one
MostRecent(ids, M, n) ==
  /\ Len(ids) = (IF Cardinality(M) < n THEN Cardinality(M) ELSE n)
  /\ Range(ids) \subseteq M
  /\ \A i \in 1..(Len(ids) - 1) :
       files[ids[i]].created_at >= files[ids[i + 1]].created_at
  /\ \A out \in M \ Range(ids) : \A i \in DOMAIN ids :
       files[out].created_at <= files[ids[i]].created_at

\* C13: a search response lists no more than 50 files, the webhook's results
\* no more than 10; both are ordered by created_at descending and are the
\* most recent of the files that match, so the 50 most recent files for the
\* empty query.
C13_CapAndOrder ==
  \A w \in Workers :
    /\ (Done(w, "search") /\ ctx[w].status = 200) =>
         /\ Len(ctx[w].body) <= 50
         /\ MostRecent([i \in DOMAIN ctx[w].body |-> ctx[w].body[i].id],
                       {id \in DOMAIN files : Matches(DBNow, id, Term(ctx[w].req.q))},
                       SearchLimit)
         /\ \A i \in DOMAIN ctx[w].body :
              ctx[w].body[i].created_at = files[ctx[w].body[i].id].created_at
         /\ ctx[w].req.q = <<>> =>
              Len(ctx[w].body) = (IF Cardinality(DOMAIN files) < 50
                                  THEN Cardinality(DOMAIN files) ELSE 50)
    /\ ctx[w].pc = "telegram_send" =>
         /\ Len(ctx[w].san) <= 10
         /\ MostRecent([i \in DOMAIN ctx[w].san |-> ctx[w].san[i].id],
                       {id \in DOMAIN files :
                          Matches(DBNow, id, Term(trim(ctx[w].req.q)))},
                       TelegramLimit)

C13_Witness ==
  \E w \in Workers :
    /\ Done(w, "search")
    /\ ctx[w].status = 200
    /\ ctx[w].req.q = <<>>
    /\ Cardinality(DOMAIN files) > SearchLimit
    /\ Len(ctx[w].body) = SearchLimit
    /\ ctx[w].body[1].created_at = ctx[w].body[2].created_at

\* C14 (as claimed), where the uploaded file is the only one stored and the
\* tags are compared as sets: after a successful upload of a file named n
\* of size s with the tag string g, a search by n gives exactly one row, of
\* size s, whose tags are the lowercased pieces of g split at white space.
C14_UploadThenSearch ==
  \A w \in Workers :
    (/\ Done(w, "upload")
     /\ ctx[w].status = 200
     /\ DOMAIN files = {ctx[w].req.id}) =>
      \A rows \in SearchResults(DBNow, ctx[w].req.name, SearchLimit) :
        /\ Len(rows) = 1
        /\ rows[1].size = ctx[w].req.size
        /\ Range(rows[1].tags)
             = {toLowerCase(t) : t \in Range(UploadTags(ctx[w].req.tagsStr))}

\* C15: a GET /api/file/:id without cookie whose token parameter is the team
\* secret is authorized and served (the file when it is stored, else 404);
\* without cookie and with any other token, or none, it is answered 401 with
\* nothing of the stores in the response.
C15_DeliveryToken ==
  \A w \in Workers :
    (Done(w, "file") /\ ctx[w].req.cookie = Undefined) =>
      IF ctx[w].req.token = TEAM_PASSWORD
      THEN /\ ctx[w].status \in {200, 404}
           /\ (/\ ctx[w].req.id \in DOMAIN files
               /\ files[ctx[w].req.id].r2_key \in bucket) => ctx[w].status = 200
      ELSE /\ ctx[w].status = 401
           /\ ctx[w].body = <<>>

C15_Witness ==
  \E w \in Workers :
    /\ Done(w, "file")
    /\ ctx[w].req.cookie = Undefined
    /\ ctx[w].req.token = TEAM_PASSWORD
    /\ ctx[w].status = 200
    /\ ctx[w].body = <<ctx[w].req.id>>
    /\ cache = {}

\* C16: a tag replace (by an admin, with an array) on an id without a row in
\* files is answered 404, and the step that answers it leaves files and
\* file_tags as they were: no row inserted for the id, none deleted for
\* another.
C16_TagsNotFound ==
  [][\A w \in Workers :
       (/\ ctx[w].pc # "done"
        /\ ctx'[w].pc = "done"
        /\ ctx'[w].req.op = "tags"
        /\ ctx'[w].req.cookie = ADMIN_PASSWORD
        /\ ctx'[w].req.kind = "array"
        /\ ctx'[w].req.id \notin DOMAIN files)
       => (/\ ctx'[w].status = 404
           /\ files' = files
           /\ file_tags' = file_tags)]_vars

C16_Witness ==
  \E w \in Workers :
    /\ Done(w, "tags")
    /\ ctx[w].status = 404
    /\ ctx[w].req.tags # <<>>
    /\ ctx[w].req.id \in deleted
    /\ file_tags # {}

\* C17 (as claimed): a tag replace by an admin whose payload is no array,
\* the body being no JSON object included, is answered 400.
C17_NonArrayIsBadRequest ==
  \A w \in Workers :
    (/\ Done(w, "tags")
     /\ ctx[w].req.cookie = ADMIN_PASSWORD
     /\ ctx[w].req.kind # "array") => ctx[w].status = 400

\* C18 (as claimed): the webhook answers every update with 200 {ok:true}.
C18_AlwaysAcknowledged ==
  \A w \in Workers : Done(w, "telegram") => ctx[w].status = 200

\* C19: when a tag replace succeeds on a file whose stored tags are those a
\* replace with the same id and the same array just gave it, it leaves
\* files and file_tags as they are and returns the array the first returned.
C19_Idempotent ==
  [][\A v, w \in Workers :
       (/\ v # w
        /\ Done(v, "tags") /\ ctx[v].status = 200
        /\ ctx[w].pc = "tags_batch"
        /\ ctx'[w].pc = "done" /\ ctx'[w].status = 200
        /\ ctx[w].req.id = ctx[v].req.id
        /\ ctx[w].req.tags = ctx[v].req.tags
        /\ TagsOf(DBNow, ctx[v].req.id) = NormSet(ctx[v].req.tags))
       => (/\ file_tags' = file_tags
           /\ files' = files
           /\ ctx'[w].body = ctx[v].body)]_vars

C19_Witness ==
  /\ Done("w1", "tags") /\ ctx["w1"].status = 200
  /\ Done("w2", "tags") /\ ctx["w2"].status = 200
  /\ ctx["w1"].req.id = ctx["w2"].req.id
  /\ ctx["w1"].req.tags = << <<"a">>, <<"b">> >>
  /\ ctx["w2"].req.tags = ctx["w1"].req.tags
  /\ ctx["w2"].body = ctx["w1"].body
  /\ TagsOf(DBNow, ctx["w1"].req.id) = {<<"a">>, <<"b">>}

C21_LinksAuthorize ==
  \A w \in Workers :
    ctx[w].pc = "telegram_send" =>
      \A i \in DOMAIN ctx[w].san :
        LET link == ctx[w].san[i].link
        IN  /\ link.query = TokenKey \o <<"=">> \o Chars(TEAM_PASSWORD)
            /\ LinkRequest(link).id = ctx[w].san[i].id
            /\ IsAuth(Undefined, LinkRequest(link).token)

\* C22: a login with the admin secret is answered 200 and leaves the browser
\* a cookie that checkAuth reads as ADMIN, one with the team secret (when it
\* is not also the admin secret) 200 and a cookie read as TEAM; a login with
\* any other password is answered 401 and leaves the cookie store as it was;
\* after a logout the browser's cookie reads as GUEST; nothing but a login
\* answered 200 or a logout changes the cookie store, and a visit of the
\* browser is served at the level of the cookie it keeps.
C22_CredentialLifecycle ==
  [][/\ jar' # jar =>
         \E w \in Workers :
           /\ ctx[w].pc = "idle" /\ ctx'[w].pc = "done"
           /\ \/ ctx'[w].req.op = "login" /\ ctx'[w].status = 200
              \/ ctx'[w].req.op = "logout"
     /\ \A w \in Workers :
       /\ (ctx[w].pc = "idle" /\ ctx'[w].pc = "done" /\ ctx'[w].req.op = "login"
            /\ ctx'[w].req.kind = "object") =>
            LET pw == ctx'[w].req.password
            IN  IF pw = ADMIN_PASSWORD
                THEN ctx'[w].status = 200 /\ checkAuth(GetCookie(jar')) = ADMIN
                ELSE IF pw = TEAM_PASSWORD
                THEN ctx'[w].status = 200 /\ checkAuth(GetCookie(jar')) = TEAM
                ELSE ctx'[w].status = 401 /\ jar' = jar
       /\ (ctx[w].pc = "idle" /\ ctx'[w].pc = "done" /\ ctx'[w].req.op = "logout") =>
            ctx'[w].status = 200 /\ checkAuth(GetCookie(jar')) = GUEST
       /\ (ctx[w].pc = "idle" /\ ctx'[w].pc = "done" /\ ctx'[w].req.op = "home"
            /\ ctx'[w].req.cookie = GetCookie(jar)) =>
            ctx'[w].body = <<checkAuth(GetCookie(jar))>>]_vars

C22_Witness ==
  \E w \in Workers :
    /\ Done(w, "home")
    /\ TEAM_PASSWORD = "p&q"
    /\ jar = <<"p", "%", "2", "6", "q">>
    /\ ctx[w].req.cookie = "p&q"
    /\ ctx[w].body = <<TEAM>>

C24_DeleteOrder ==
  [][\A w \in Workers :
       (ctx[w].req.op = "delete" /\ ctx[w].pc \notin {"idle", "done"}) =>
         LET id == ctx[w].req.id
         IN  /\ bucket' # bucket =>
                  /\ ctx[w].pc = "delete_blob"
                  /\ bucket' = bucket \ {id}
                  /\ files' = files /\ file_tags' = file_tags
             /\ file_tags' # file_tags =>
                  /\ ctx[w].pc = "delete_tags"
                  /\ id \notin bucket
                  /\ files' = files
             /\ files' # files =>
                  /\ ctx[w].pc = "delete_row"
                  /\ id \notin bucket
                  /\ TagsOf(DBNow, id) = {}
                  /\ file_tags' = file_tags
             /\ (ctx'[w].pc = "done" /\ ctx'[w].status = 500) =>
                  /\ id \in DOMAIN files'
                  /\ ctx[w].pc # "delete_blob" => id \notin bucket'
             /\ (ctx'[w].pc = "done" /\ ctx'[w].status = 200) =>
                  /\ id \notin DOMAIN files'
                  /\ TagsOf([files |-> files', file_tags |-> file_tags'], id) = {}
             /\ ~(id \in bucket' /\ id \notin DOMAIN files')]_vars

C24_Witness ==
  \E w \in Workers :
    /\ Done(w, "delete")
    /\ ctx[w].status = 500
    /\ ctx[w].req.id \in DOMAIN files
    /\ ctx[w].req.id \notin bucket
    /\ TagsOf(DBNow, ctx[w].req.id) # {}

\* C25: the step of an upload that creates the file row creates all of its
\* tag rows with it, and the blob under its r2_key is in the bucket by then;
\* the step that writes the blob leaves the index alone; an upload whose
\* index write fails leaves the blob and no file row.
C25_UploadOrder ==
  [][\A w \in Workers :
       (ctx[w].req.op = "upload" /\ ctx[w].pc = "upload_batch") =>
         LET id == ctx[w].req.id
             after == [files |-> files', file_tags |-> file_tags']
         IN  /\ id \in bucket /\ id \notin DOMAIN files
             /\ id \in DOMAIN files' =>
                  /\ files'[id].r2_key = id
                  /\ id \in bucket'
                  /\ TagsOf(after, id)
                       = {toLowerCase(t) : t \in Range(UploadTags(ctx[w].req.tagsStr))}
                  /\ ctx'[w].pc = "done" /\ ctx'[w].status = 200
             /\ (ctx'[w].pc = "done" /\ ctx'[w].status # 200) =>
                  /\ id \in bucket'
                  /\ id \notin DOMAIN files'
                  /\ TagsOf(after, id) = {}
             /\ (ctx'[w].pc = "done" /\ ctx'[w].status = 200) => id \in DOMAIN files']_vars

C25_Witness ==
  \E w \in Workers :
    /\ Done(w, "upload")
    /\ ctx[w].status = 500
    /\ ctx[w].req.tagsStr # NoStr
    /\ ctx[w].req.id \in bucket
    /\ ctx[w].req.id \notin DOMAIN files

\* C26: a GET /api/file/:id whose cookie is below TEAM and whose token is not
\* the team secret is answered 401 without file bytes, also when the cache
\* holds a response for its URL; a response is handed to cache.put only by
\* the step that answers 200 for that URL from the bucket, and the cache
\* takes in nothing but what was handed to cache.put.
C26_AuthBeforeCache ==
  [][/\ \A w \in Workers :
          (ctx[w].pc # "done" /\ ctx'[w].pc = "done" /\ ctx'[w].req.op = "file") =>
            /\ (/\ ctx'[w].req.cookie \notin {ADMIN_PASSWORD, TEAM_PASSWORD}
                /\ ctx'[w].req.token # TEAM_PASSWORD) =>
                 (ctx'[w].status = 401 /\ ctx'[w].body = <<>>)
            /\ ctx'[w].status # 200 => puts' = puts
     /\ \A url \in puts' \ puts :
          \E w \in Workers :
            /\ ctx[w].pc = "file_get"
            /\ ctx'[w].pc = "done" /\ ctx'[w].status = 200
            /\ Url(ctx'[w].req) = url
            /\ IsAuth(ctx'[w].req.cookie, ctx'[w].req.token)
     /\ \A url \in cache' \ cache : url \in puts]_vars

C26_Witness ==
  \E w \in Workers :
    /\ Done(w, "file")
    /\ ctx[w].status = 401
    /\ ctx[w].req.cookie = "other"
    /\ Url(ctx[w].req) \in cache

====
